---- MODULE Spec2Model ----
(***************************************************************************)
(* Model of the binary_byte crate (src/src/lib.rs): ByteBase2, a byte kept *)
(* as an array of 8 booleans (index 0 = least significant bit), with its   *)
(* conversions from/to u8 and from/to an 8-character pattern, the ones()   *)
(* count, the bit iterator and the Index/IndexMut accessors.               *)
(*                                                                         *)
(* A String is a sequence of chars, a char is its Unicode code point; the  *)
(* length of a String is its UTF-8 length in bytes, as in Rust.            *)
(***************************************************************************)
EXTENDS Integers, Sequences, FiniteSets

VARIABLES
    pc,        \* position of the calling program
    pattern,   \* the String handed to from_string
    input,     \* the u8 handed to from_dec
    self,      \* the intern array of the byte
    result,    \* what from_string returned
    text,      \* what Debug for ByteBase2 wrote
    dec,       \* what as_dec returned
    count,     \* what ones returned
    msg,       \* what Debug for InvalidPattern wrote
    last,      \* the last indexed access and what it returned
    written,   \* history: per position, the value last written through IndexMut
    nwrites,   \* history: number of indexed writes so far
    it,        \* the iterator returned by iter(): the items it still holds
    yielded,   \* history: the items the iterator has returned so far
    ended,     \* the iterator has returned None
    calls      \* history: number of calls of iter()

queryVars == <<text, dec, count, msg>>
indexVars == <<last, written, nwrites>>
iterVars == <<it, yielded, ended, calls>>
vars == <<pc, pattern, input, self, result, queryVars, indexVars, iterVars>>

(* ---------------------------- bounds ----------------------------------- *)
\* longest input pattern, in chars
MaxLen == 9
\* largest index handed to Index / IndexMut
MaxIdx == 9
\* largest number of indexed writes in one run
MaxWrites == 2
\* largest number of calls of iter() in one run
MaxCalls == 2
\* the indexing program starts from the u8 values 0..MaxInput and 255-MaxInput..255
MaxInput == 15

(* ------------------------- program constants --------------------------- *)
\* [bool;8]
Bits == 8
\* u8 holds 0..U8Max
U8Max == 255
\* '0' and '1'
Char0 == 48
Char1 == 49
\* the chars of the input patterns: '0', '1', a one-byte char that is neither
\* ('2', as in "12001101") and a char that takes two bytes in UTF-8 (U+00E9)
Alphabet == {Char0, Char1, 50, 233}

\* the Strings of exactly n chars
Patterns(n) == [1..n -> Alphabet]

U8 == 0..U8Max

(* ------------------------------ helpers -------------------------------- *)
\* number of bytes of the UTF-8 encoding of a char
Utf8Len(c) == IF c < 128 THEN 1 ELSE IF c < 2048 THEN 2 ELSE IF c < 65536 THEN 3 ELSE 4

RECURSIVE StrLen(_)
\* String::len(): the length in bytes
StrLen(s) == IF s = <<>> THEN 0 ELSE Utf8Len(Head(s)) + StrLen(Tail(s))

\* Iterator::rev() over a sequence
Rev(s) == [k \in 1..Len(s) |-> s[Len(s) + 1 - k]]

\* [false;8]
AllFalse == [i \in 0..(Bits - 1) |-> FALSE]

\* self.intern.iter(): the array as a sequence, index 0 first
ArrayIter(intern) == [k \in 1..Bits |-> intern[k - 1]]

RECURSIVE Pow(_, _)
Pow(b, e) == IF e = 0 THEN 1 ELSE b * Pow(b, e - 1)

(* --------------------------- InvalidPattern ---------------------------- *)
\* the unit struct InvalidPattern
InvalidPattern == "InvalidPattern"

\* a Debug that writes another text
InvalidPatternFmt_reworded(e) == "The string pattern should have exactly 8 '0'/'1' characters, got another."

\* impl Debug for InvalidPattern
InvalidPatternFmt(e) == "The string pattern should have exactly 8, '0' or '1', characters."

(* ----------------------------- ByteBase2 ------------------------------- *)
Ok(intern) == [tag |-> "Ok", intern |-> intern]
Err(e) == [tag |-> "Err", err |-> e]
\* an out-of-bounds array access
Panic == [tag |-> "Panic"]

\* chars() without rev(): the first char becomes bit 0
chars_forward(p) == p

\* pattern.chars().rev()
chars_rev(p) == Rev(p)

RECURSIVE FromStringLoop(_, _, _)
\* for (index, bit) in pattern.chars().rev().enumerate() { ... }
FromStringLoop(chars, index, intern) ==
    IF chars = <<>> THEN Ok(intern)
    ELSE LET bit == Head(chars) IN
         IF bit = Char1
         THEN IF index \in DOMAIN intern
              THEN FromStringLoop(Tail(chars), index + 1, [intern EXCEPT ![index] = TRUE])
              ELSE Panic
         ELSE IF bit # Char0 THEN Err(InvalidPattern)
         ELSE FromStringLoop(Tail(chars), index + 1, intern)

\* from_string that accepts every pattern of at least 8 bytes
from_string_atleast(p) ==
    IF StrLen(p) >= 8 THEN FromStringLoop(chars_rev(p), 0, AllFalse)
    ELSE Err(InvalidPattern)

\* ByteBase2::from_string
from_string(p) ==
    IF StrLen(p) = 8 THEN FromStringLoop(chars_rev(p), 0, AllFalse)
    ELSE Err(InvalidPattern)

RECURSIVE FromDecLoop(_, _, _)
\* for index in 0..8 { intern[index] = input % 2 == 1; input /= 2; }
FromDecLoop(index, in, intern) ==
    IF index >= 8 THEN intern
    ELSE FromDecLoop(index + 1, in \div 2, [intern EXCEPT ![index] = (in % 2 = 1)])

\* from_dec whose loop stops one bit short (for index in 0..7)
from_dec_short(in) == [FromDecLoop(0, in, AllFalse) EXCEPT ![7] = FALSE]

\* ByteBase2::from_dec
from_dec(in) == FromDecLoop(0, in, AllFalse)

RECURSIVE AsDecLoop(_, _, _, _)
\* for index in 0..8 { if self.intern[index] { output += 2_u8.pow(index as u32); } }
\* overflow records that 2_u8.pow or += left the range of u8
AsDecLoop(intern, index, output, overflow) ==
    IF index >= 8 THEN [value |-> output, overflow |-> overflow]
    ELSE IF intern[index]
         THEN LET p == Pow(2, index)
                  sum == output + (p % (U8Max + 1))
              IN AsDecLoop(intern, index + 1, sum % (U8Max + 1),
                           overflow \/ p > U8Max \/ sum > U8Max)
         ELSE AsDecLoop(intern, index + 1, output, overflow)

\* as_dec whose accumulator starts at 1
as_dec_from_one(intern) == AsDecLoop(intern, 0, 1, FALSE)

\* ByteBase2::as_dec
as_dec(intern) == AsDecLoop(intern, 0, 0, FALSE)

\* ones that counts the false bits
ones_negated(intern) == Len(SelectSeq(ArrayIter(intern), LAMBDA bit : ~bit))

\* ByteBase2::ones
ones(intern) == Len(SelectSeq(ArrayIter(intern), LAMBDA bit : bit))

\* Debug that writes bit 0 first (no rev())
fmt_forward(intern) == [k \in 1..Bits |-> IF ArrayIter(intern)[k] THEN Char1 ELSE Char0]

\* impl Debug for ByteBase2
fmt(intern) == [k \in 1..Bits |-> IF Rev(ArrayIter(intern))[k] THEN Char1 ELSE Char0]

\* iter that yields the most significant bit first
iter_rev(intern) == Rev(ArrayIter(intern))

\* ByteBase2::iter: Vec::from(self.intern.as_ref()).into_iter()
iter(intern) == ArrayIter(intern)

\* index that wraps the index into 0..7
index_wrap(intern, idx) == [tag |-> "Ok", bit |-> intern[idx % Bits]]

\* Index::index: &self.intern[idx]
index(intern, idx) ==
    IF idx \in DOMAIN intern THEN [tag |-> "Ok", bit |-> intern[idx]] ELSE Panic

\* index_mut that counts positions from the most significant bit
index_mut_msb(intern, idx) ==
    IF idx \in DOMAIN intern THEN [tag |-> "Ok", place |-> (Bits - 1) - idx] ELSE Panic

\* IndexMut::index_mut: &mut self.intern[idx]
index_mut(intern, idx) ==
    IF idx \in DOMAIN intern THEN [tag |-> "Ok", place |-> idx] ELSE Panic

(* ------------------------------ actions -------------------------------- *)
NoByte == AllFalse
NoResult == [tag |-> "None"]
NoDec == [value |-> 0, overflow |-> FALSE]
NoAccess == [op |-> "none", idx |-> 0, val |-> FALSE, ret |-> "none", bit |-> FALSE]
NeverWritten == [i \in 0..(Bits - 1) |-> <<>>]

\* let r = ByteBase2::from_string(pattern)
FromString ==
    /\ pc = "start_pattern"
    /\ result' = from_string(pattern)
    /\ self' = IF result'.tag = "Ok" THEN result'.intern ELSE self
    /\ pc' = IF result'.tag = "Ok" THEN "built"
             ELSE IF result'.tag = "Err" THEN "failed" ELSE "panicked"
    /\ UNCHANGED <<pattern, input, queryVars, indexVars, iterVars>>

\* let mut byte = ByteBase2::from_dec(input)
FromDec ==
    /\ pc = "start_dec"
    /\ self' = from_dec(input)
    /\ pc' = "built"
    /\ UNCHANGED <<pattern, input, result, queryVars, indexVars, iterVars>>

\* byte.as_dec()
AsDec ==
    /\ pc = "built"
    /\ dec' = as_dec(self)
    /\ pc' = "as_dec"
    /\ UNCHANGED <<pattern, input, self, result, text, count, msg, indexVars, iterVars>>

\* byte.ones()
Ones ==
    /\ pc = "built"
    /\ count' = ones(self)
    /\ pc' = "ones"
    /\ UNCHANGED <<pattern, input, self, result, text, dec, msg, indexVars, iterVars>>

\* format!("{:?}", byte)
Fmt ==
    /\ pc = "built"
    /\ text' = fmt(self)
    /\ pc' = "fmt"
    /\ UNCHANGED <<pattern, input, self, result, dec, count, msg, indexVars, iterVars>>

\* format!("{:?}", err)
ErrFmt ==
    /\ pc = "failed"
    /\ msg' = InvalidPatternFmt(result.err)
    /\ pc' = "err_fmt"
    /\ UNCHANGED <<pattern, input, self, result, text, dec, count, indexVars, iterVars>>

\* byte[idx]
IndexRead(idx) ==
    /\ pc \in {"built", "indexed"}
    /\ LET r == index(self, idx) IN
       IF r.tag = "Ok"
       THEN /\ last' = [op |-> "read", idx |-> idx, val |-> FALSE, ret |-> "bit", bit |-> r.bit]
            /\ pc' = "indexed"
       ELSE /\ last' = [op |-> "read", idx |-> idx, val |-> FALSE, ret |-> "panic", bit |-> FALSE]
            /\ pc' = "panicked"
    /\ UNCHANGED <<pattern, input, self, result, queryVars, written, nwrites, iterVars>>

\* byte[idx] = x
IndexWrite(idx, x) ==
    /\ pc \in {"built", "indexed"}
    /\ nwrites < MaxWrites
    /\ nwrites' = nwrites + 1
    /\ LET r == index_mut(self, idx) IN
       IF r.tag = "Ok"
       THEN /\ self' = [self EXCEPT ![r.place] = x]
            /\ written' = [written EXCEPT ![idx] = <<x>>]
            /\ last' = [op |-> "write", idx |-> idx, val |-> x, ret |-> "unit", bit |-> FALSE]
            /\ pc' = "indexed"
       ELSE /\ last' = [op |-> "write", idx |-> idx, val |-> x, ret |-> "panic", bit |-> FALSE]
            /\ pc' = "panicked"
            /\ UNCHANGED <<self, written>>
    /\ UNCHANGED <<pattern, input, result, queryVars, iterVars>>

\* let mut byte_iter = byte.iter()
Iter ==
    /\ pc \in {"built", "iterating"}
    /\ calls < MaxCalls
    /\ calls' = calls + 1
    /\ it' = iter(self)
    /\ yielded' = <<>>
    /\ ended' = FALSE
    /\ pc' = "iterating"
    /\ UNCHANGED <<pattern, input, self, result, queryVars, indexVars>>

\* byte_iter.next()
IterNext ==
    /\ pc = "iterating"
    /\ IF it = <<>>
       THEN /\ ended' = TRUE
            /\ UNCHANGED <<it, yielded>>
       ELSE /\ yielded' = Append(yielded, Head(it))
            /\ it' = Tail(it)
            /\ UNCHANGED ended
    /\ UNCHANGED <<pc, calls, pattern, input, self, result, queryVars, indexVars>>

(* --------------------------- specifications ---------------------------- *)
InitRest ==
    /\ self = NoByte
    /\ result = NoResult
    /\ text = <<>>
    /\ dec = NoDec
    /\ count = 0
    /\ msg = ""
    /\ last = NoAccess
    /\ written = NeverWritten
    /\ nwrites = 0
    /\ it = <<>>
    /\ yielded = <<>>
    /\ ended = FALSE
    /\ calls = 0

\* a program that parses a pattern and then queries the byte or prints the error
InitPattern ==
    /\ pc = "start_pattern"
    /\ \E n \in 0..MaxLen : pattern \in Patterns(n)
    /\ input = 0
    /\ InitRest

NextPattern == FromString \/ AsDec \/ Fmt \/ ErrFmt

SpecPattern == InitPattern /\ [][NextPattern]_vars

\* a program that builds a byte from a u8 and then queries it
InitDec ==
    /\ pc = "start_dec"
    /\ pattern = <<>>
    /\ input \in U8
    /\ InitRest

NextDec == FromDec \/ AsDec \/ Ones \/ Fmt

SpecDec == InitDec /\ [][NextDec]_vars

\* a program that builds a byte from a u8 and then reads and writes its bits
IndexInputs == (0..MaxInput) \cup {U8Max - v : v \in 0..MaxInput}

InitIndex ==
    /\ pc = "start_dec"
    /\ pattern = <<>>
    /\ input \in IndexInputs \cap U8
    /\ InitRest

NextIndex ==
    \/ FromDec
    \/ \E idx \in 0..MaxIdx : IndexRead(idx)
    \/ \E idx \in 0..MaxIdx, x \in BOOLEAN : IndexWrite(idx, x)

SpecIndex == InitIndex /\ [][NextIndex]_vars

\* a program that builds a byte from a u8 and then iterates over its bits
NextIter == FromDec \/ Iter \/ IterNext

SpecIter == InitDec /\ [][NextIter]_vars

(* ------------------------------ claims --------------------------------- *)
\* "00000000" .. as sequences of chars
Str(bits) == [k \in 1..Len(bits) |-> IF bits[k] = 1 THEN Char1 ELSE Char0]

\* exactly 8 chars, each '0' or '1'
ValidPattern(s) == Len(s) = 8 /\ \A k \in 1..Len(s) : s[k] \in {Char0, Char1}

RECURSIVE BinValue(_)
\* the value of a string of '0'/'1' read as a binary numeral, first char most significant
BinValue(s) ==
    IF s = <<>> THEN 0
    ELSE 2 * BinValue(SubSeq(s, 1, Len(s) - 1)) + (IF s[Len(s)] = Char1 THEN 1 ELSE 0)

\* bit i of the binary expansion of v: (v >> i) & 1
BitOf(v, i) == (v \div Pow(2, i)) % 2

RECURSIVE PopCount(_)
PopCount(v) == IF v = 0 THEN 0 ELSE (v % 2) + PopCount(v \div 2)

\* the byte a run of SpecIndex must hold: written values over the initial ones
Expected == [i \in 0..7 |-> IF written[i] = <<>> THEN from_dec(input)[i] ELSE written[i][1]]

\* C1: from_string returns Err(InvalidPattern) exactly when the pattern is not
\* 8 chars each '0' or '1', returns Ok otherwise, and never indexes the bit
\* array out of 0..7 (never panics), for every string, multi-byte chars included.
C1_FromStringTotal ==
    pc # "start_pattern" =>
        /\ result.tag \in {"Ok", "Err"}
        /\ pc # "panicked"
        /\ (result.tag = "Err") <=> ~ValidPattern(pattern)
        /\ result.tag = "Err" => result = Err(InvalidPattern)
        /\ result.tag = "Ok" => DOMAIN result.intern = 0..7

\* a pattern of 8 bytes but fewer than 8 chars, whose last-read char is '1', was rejected
C1_Witness ==
    /\ pc = "failed"
    /\ StrLen(pattern) = 8
    /\ Len(pattern) = 7
    /\ pattern[7] = Char1
    /\ Utf8Len(pattern[1]) = 2
    /\ result.tag = "Err"

\* C2: for a valid pattern, bit i of the byte is set exactly when the char at
\* position 7-i from the left is '1', and as_dec of it is the pattern's value
\* as a binary numeral.
C2_PatternBitOrder ==
    /\ (pc \in {"built", "as_dec", "fmt"} /\ result.tag = "Ok") =>
           \A i \in 0..7 : self[i] <=> (pattern[(7 - i) + 1] = Char1)
    /\ (pc = "as_dec" /\ result.tag = "Ok") => dec.value = BinValue(pattern)

\* "00001000" was parsed and converted to 8
C2_Witness ==
    /\ pc = "as_dec"
    /\ pattern = Str(<<0, 0, 0, 0, 1, 0, 0, 0>>)
    /\ self[3]
    /\ dec.value = 8

\* C3: as_dec(from_dec(v)) = v for every v in 0..255, without arithmetic overflow.
C3_DecRoundTrip ==
    (pc = "as_dec" /\ result.tag = "None") => (dec.value = input /\ ~dec.overflow)

\* 255 went through from_dec and as_dec
C3_Witness == pc = "as_dec" /\ result.tag = "None" /\ input = 255 /\ dec.value = 255

\* C4: rendering the byte parsed from a valid pattern gives back the pattern.
C4_PatternRoundTrip ==
    (pc = "fmt" /\ result.tag = "Ok") => text = pattern

\* "01111001" was parsed and rendered
C4_Witness ==
    /\ pc = "fmt"
    /\ result.tag = "Ok"
    /\ pattern = Str(<<0, 1, 1, 1, 1, 0, 0, 1>>)
    /\ text = pattern

\* C5: rendering from_dec(v) gives 8 chars of '0'/'1', char k from the left
\* being '1' iff bit 7-k of v is 1; 15 renders as "00001111".
C5_RenderDec ==
    (pc = "fmt" /\ result.tag = "None") =>
        /\ Len(text) = 8
        /\ \A k \in 0..7 : text[k + 1] = (IF BitOf(input, 7 - k) = 1 THEN Char1 ELSE Char0)
        /\ input = 15 => text = Str(<<0, 0, 0, 0, 1, 1, 1, 1>>)

\* 15 was rendered as "00001111"
C5_Witness ==
    /\ pc = "fmt"
    /\ result.tag = "None"
    /\ input = 15
    /\ text = Str(<<0, 0, 0, 0, 1, 1, 1, 1>>)

\* C7: ones() is the number of positions holding true, in 0..8, and on
\* from_dec(v) it is the population count of v (15 -> 4, 0 -> 0, 255 -> 8).
C7_Ones ==
    pc = "ones" =>
        /\ count = Cardinality({i \in 0..7 : self[i]})
        /\ count \in 0..8
        /\ count = PopCount(input)
        /\ input = 15 => count = 4
        /\ input = 0 => count = 0
        /\ input = 255 => count = 8

\* ones() of from_dec(15) returned 4
C7_Witness == pc = "ones" /\ input = 15 /\ count = 4

\* C9 as stated: the message of InvalidPattern is
\* "the string pattern should have exactly 8 '0'/'1' characters".
C9_MessageAsStated ==
    pc = "err_fmt" => msg = "the string pattern should have exactly 8 '0'/'1' characters"

\* C9 amended: every failing input gives the same data-less error value, whose
\* message is "The string pattern should have exactly 8, '0' or '1', characters."
C9_Message ==
    /\ pc \in {"failed", "err_fmt"} => result = Err(InvalidPattern)
    /\ pc = "err_fmt" =>
           msg = "The string pattern should have exactly 8, '0' or '1', characters."

\* the error of an 8-char pattern with an illegal char in the middle was printed
C9_Witness ==
    /\ pc = "err_fmt"
    /\ Len(pattern) = 8
    /\ pattern[4] \notin {Char0, Char1}
    /\ msg # ""

\* C6: an indexed read or write at an index >= 8 panics: it returns no bit,
\* does not wrap or clamp the index, and leaves the 8 bits unchanged.
C6_OutOfBoundsPanics ==
    /\ [](last.op # "none" =>
            /\ (last.idx >= 8) <=> (pc = "panicked")
            /\ (last.idx >= 8) <=> (last.ret = "panic")
            /\ (last.idx >= 8) => self = Expected)
    /\ [][pc' = "panicked" => (self' = self /\ DOMAIN self' = 0..7)]_vars

\* a write at index 8 panicked after an earlier write had succeeded
C6_Witness ==
    /\ pc = "panicked"
    /\ last.op = "write"
    /\ last.idx = 8
    /\ nwrites = 2
    /\ \E i \in 0..7 : written[i] # <<>>

\* C8: iter() yields exactly 8 values and then ends, the k-th being bit k of
\* the byte; creating and consuming it leaves the byte unchanged, and every
\* fresh call yields the full traversal again.
C8_Iter ==
    pc = "iterating" =>
        /\ self = from_dec(input)
        /\ Len(yielded) + Len(it) = 8
        /\ \A k \in 0..(Len(yielded) - 1) : yielded[k + 1] = self[k]
        /\ \A k \in 0..(Len(it) - 1) : it[k + 1] = self[Len(yielded) + k]
        /\ ended => Len(yielded) = 8

\* the second iterator over from_dec(3) ("00000011") was consumed to its end
C8_Witness ==
    /\ pc = "iterating"
    /\ calls = 2
    /\ input = 3
    /\ ended
    /\ yielded = <<TRUE, TRUE, FALSE, FALSE, FALSE, FALSE, FALSE, FALSE>>

\* C10: a write at i in 0..7 changes position i only, a read at i right after
\* returns the written value; after any writes every position holds its last
\* written value, or its initial one, and the byte still has 8 bits.
C10_WriteFrame ==
    /\ [](pc \in {"built", "indexed", "panicked"} =>
            /\ DOMAIN self = 0..7
            /\ self = Expected)
    /\ [][(nwrites' = nwrites + 1 /\ pc' = "indexed") =>
            /\ last'.op = "write"
            /\ self'[last'.idx] = last'.val
            /\ index(self', last'.idx) = [tag |-> "Ok", bit |-> last'.val]
            /\ \A j \in 0..7 : j # last'.idx => self'[j] = self[j]]_vars
    /\ [][(last'.op = "read" /\ pc' = "indexed") =>
            /\ last'.bit = self[last'.idx]
            /\ self' = self]_vars

\* a read returned a written value that differs from the bit's initial value
C10_Witness ==
    /\ pc = "indexed"
    /\ last.op = "read"
    /\ nwrites = 2
    /\ written[last.idx] # <<>>
    /\ last.bit # from_dec(input)[last.idx]
    /\ last.bit = written[last.idx][1]

====
